---- MODULE Spec2Model ----
(***************************************************************************)
(* State-machine model of SnakeGame (src/snake.py).                        *)
(*                                                                         *)
(* Program state: snake, direction, next_direction, food, score,           *)
(* game_over, speed_ms, job_id.  The Tk after-queue is modelled by         *)
(* after_queue (number of tick callbacks waiting in the event loop) and    *)
(* job_id (what the id stored in self.job_id refers to).  config holds     *)
(* the settings __init__ stores (lines 10-14); no handler changes them.    *)
(* last records the handler that ran most recently and the branch it       *)
(* took, request the argument of that handler when it was                  *)
(* change_direction ("None" otherwise).                                    *)
(*                                                                         *)
(* Positions are <<x, y>> with 0-based coordinates as in the source; the   *)
(* snake is a sequence, head first (snake[1] is self.snake[0]).            *)
(* draw() and draw_cell() only write to the canvas and are not modelled.   *)
(***************************************************************************)
EXTENDS Integers, Sequences, FiniteSets

VARIABLES snake, direction, next_direction, food, score, game_over,
          speed_ms, job_id, after_queue, last, request, config

vars == <<snake, direction, next_direction, food, score, game_over,
          speed_ms, job_id, after_queue, last, request, config>>

\* The fields reset_game assigns (everything but the scheduler and last).
game == <<snake, direction, next_direction, food, score, game_over, speed_ms>>

-----------------------------------------------------------------------------
(* Configuration.  The source fixes a 50 x 33 board (1500 // 30 by         *)
(* 1000 // 30) and 50 speed steps (200 down to 100 by 2 per point).  The   *)
(* model keeps cell_size, min_speed_ms and the step of 2, and scales the   *)
(* board and the number of speed steps down.  As in the source, the speed  *)
(* floor is reached well before the snake can fill the board.              *)

BoardCols == 4
BoardRows == 2
SpeedSteps == 2

\* The settings of lines 10-14 for a board of c by r cells and n speed steps.
Settings(c, r, n) ==
    [width |-> c * 30, height |-> r * 30, cell_size |-> 30,
     base_speed_ms |-> 100 + 2 * n, min_speed_ms |-> 100]

\* The settings of the game that is checked.
ModelConfig == Settings(BoardCols, BoardRows, SpeedSteps)

cell_size == config.cell_size
width == config.width
height == config.height
min_speed_ms == config.min_speed_ms
base_speed_ms == config.base_speed_ms

cols == width \div cell_size
rows == height \div cell_size
center_x == cols \div 2
center_y == rows \div 2

Directions == {"Up", "Down", "Left", "Right"}

direction_vectors ==
    [d \in Directions |->
        CASE d = "Up" -> <<0, -1>>
          [] d = "Down" -> <<0, 1>>
          [] d = "Left" -> <<-1, 0>>
          [] d = "Right" -> <<1, 0>>]

opposites ==
    [d \in Directions |->
        CASE d = "Up" -> "Down"
          [] d = "Down" -> "Up"
          [] d = "Left" -> "Right"
          [] d = "Right" -> "Left"]

-----------------------------------------------------------------------------
(* Pure helpers *)

\* The cells a sequence of positions occupies.
Cells(s) == {s[i] : i \in 1..Len(s)}

\* max() of two integers (line 126).
max(a, b) == IF a >= b THEN a ELSE b

\* hits_wall with the comparison against cols/rows off by one.
hits_wall_off_by_one(pos) ==
    pos[1] < 0 \/ pos[2] < 0 \/ pos[1] > cols \/ pos[2] > rows

\* hits_wall that already reports the last column and the last row as wall.
hits_wall_border(pos) ==
    pos[1] < 0 \/ pos[2] < 0 \/ pos[1] >= cols - 1 \/ pos[2] >= rows - 1

hits_wall(pos) ==
    pos[1] < 0 \/ pos[2] < 0 \/ pos[1] >= cols \/ pos[2] >= rows

\* hits_self tested against the snake without its tail, as if the tail had
\* already been removed.
hits_self_after_pop(pos) == pos \in Cells(SubSeq(snake, 1, Len(snake) - 1))

hits_self(pos) == pos \in Cells(snake)

\* The list `available` that spawn_food builds for a snake s; random.choice
\* picks any element of it and raises IndexError when it is empty.
available(s) ==
    {<<x, y>> : x \in 0..(cols - 1), y \in 0..(rows - 1)} \ Cells(s)

\* The snake reset_game builds.
start_snake ==
    << <<center_x, center_y>>, <<center_x - 1, center_y>>,
       <<center_x - 2, center_y>> >>

\* new_speed without the floor at min_speed_ms.
new_speed_no_floor(sc) == base_speed_ms - sc * 2

\* speed after a point is scored (line 126).
new_speed(sc) == max(min_speed_ms, base_speed_ms - sc * 2)

\* new_head computed from self.snake[-1], the tail, instead of the head.
new_head_from_tail(d) ==
    <<snake[Len(snake)][1] + direction_vectors[d][1],
      snake[Len(snake)][2] + direction_vectors[d][2]>>

\* head + direction vector (lines 112-114).
new_head(d) ==
    <<snake[1][1] + direction_vectors[d][1],
      snake[1][2] + direction_vectors[d][2]>>

\* snake.pop(0): the list without its first element.
pop_first(s) == SubSeq(s, 2, Len(s))

\* snake.pop(): the list without its last element.
pop(s) == SubSeq(s, 1, Len(s) - 1)

-----------------------------------------------------------------------------
(* Scheduler *)

\* root.after_cancel(job_id) followed by job_id = None (lines 70-72): the
\* number of tick callbacks left in the after-queue.  Cancelling an id whose
\* callback already ran removes nothing.
after_cancel(q, j) == IF j = "queued" THEN q - 1 ELSE q

-----------------------------------------------------------------------------
(* Initial state: job_id = None (line 48), then reset_game (line 49). *)

Init ==
    /\ config = ModelConfig
    /\ request = "None"
    /\ snake = start_snake
    /\ direction = "Right"
    /\ next_direction = "Right"
    /\ food \in available(start_snake)
    /\ score = 0
    /\ game_over = FALSE
    /\ speed_ms = base_speed_ms
    /\ job_id = "queued"
    /\ after_queue = 1
    /\ last = "init"

-----------------------------------------------------------------------------
(* Operations.  q and j are the after-queue and the job_id status at the   *)
(* time the handler body starts.                                           *)

\* reset_game that leaves the score of the finished run in place.
reset_game_keeps_score(q, j) ==
    /\ snake' = start_snake
    /\ direction' = "Right"
    /\ next_direction' = "Right"
    /\ food' \in available(start_snake)
    /\ score' = score
    /\ game_over' = FALSE
    /\ speed_ms' = base_speed_ms
    /\ after_queue' = after_cancel(q, j) + 1
    /\ job_id' = "queued"

\* reset_game (lines 51-75): new run, cancel the pending tick, schedule one.
reset_game(q, j) ==
    /\ snake' = start_snake
    /\ direction' = "Right"
    /\ next_direction' = "Right"
    /\ food' \in available(start_snake)
    /\ score' = 0
    /\ game_over' = FALSE
    /\ speed_ms' = base_speed_ms
    /\ after_queue' = after_cancel(q, j) + 1
    /\ job_id' = "queued"

\* restart_if_game_over without the game_over test.
restart_unconditional ==
    reset_game(after_queue, job_id) /\ last' = "restart"

\* restart_if_game_over (lines 77-80), bound to <space>.
restart_if_game_over ==
    IF game_over
    THEN reset_game(after_queue, job_id) /\ last' = "restart"
    ELSE UNCHANGED <<game, job_id, after_queue>> /\ last' = "restart_ignored"

\* change_direction that compares the request with next_direction, the
\* pending direction, instead of the committed one.
change_direction_vs_pending(new_direction) ==
    /\ UNCHANGED <<snake, direction, food, score, game_over, speed_ms,
                   job_id, after_queue>>
    /\ IF game_over
       THEN next_direction' = next_direction /\ last' = "dir_ignored_over"
       ELSE IF new_direction = opposites[next_direction]
            THEN next_direction' = next_direction
                 /\ last' = "dir_ignored_opposite"
            ELSE next_direction' = new_direction /\ last' = "dir_set"

\* change_direction without the game_over test.
change_direction_when_over(new_direction) ==
    /\ UNCHANGED <<snake, direction, food, score, game_over, speed_ms,
                   job_id, after_queue>>
    /\ IF new_direction = opposites[direction]
       THEN next_direction' = next_direction
            /\ last' = "dir_ignored_opposite"
       ELSE next_direction' = new_direction /\ last' = "dir_set"

\* change_direction (lines 82-88), bound to the arrow keys and w/a/s/d.
change_direction(new_direction) ==
    /\ UNCHANGED <<snake, direction, food, score, game_over, speed_ms,
                   job_id, after_queue>>
    /\ IF game_over
       THEN next_direction' = next_direction /\ last' = "dir_ignored_over"
       ELSE IF new_direction = opposites[direction]
            THEN next_direction' = next_direction
                 /\ last' = "dir_ignored_opposite"
            ELSE next_direction' = new_direction /\ last' = "dir_set"

\* The early return of tick preceded by a call of schedule_next_tick.
tick_game_over_reschedules(q, j) ==
    /\ UNCHANGED game
    /\ after_queue' = q + 1 /\ job_id' = "queued"
    /\ last' = "tick_ignored"

\* tick, lines 108-109: the early return when the run is over.
tick_game_over(q, j) ==
    /\ UNCHANGED game
    /\ after_queue' = q /\ job_id' = j
    /\ last' = "tick_ignored"

\* The collision branch without its return: the next tick is scheduled.
tick_collision_reschedules(q, j) ==
    /\ game_over' = TRUE
    /\ UNCHANGED <<snake, food, score, speed_ms>>
    /\ after_queue' = q + 1 /\ job_id' = "queued"
    /\ last' = "tick_collision"

\* The collision branch that returns without setting game_over and keeps
\* the loop going.
tick_collision_keeps_running(q, j) ==
    /\ UNCHANGED <<snake, food, score, speed_ms, game_over>>
    /\ after_queue' = q + 1 /\ job_id' = "queued"
    /\ last' = "tick_collision"

\* tick, lines 116-119: a collision ends the run; nothing is scheduled.
tick_collision(q, j) ==
    /\ game_over' = TRUE
    /\ UNCHANGED <<snake, food, score, speed_ms>>
    /\ after_queue' = q /\ job_id' = j
    /\ last' = "tick_collision"

\* The food test made on the head before the move.
eats_old_head(nh) == snake[1] = food

\* tick, line 123: the test that decides between eating and moving.
eats(nh) == nh = food

\* The eating branch that also removes the tail.
tick_eat_no_growth(q, j, nh) ==
    LET grown == <<nh>> \o snake IN
    /\ snake' = pop(grown)
    /\ score' = score + 1
    /\ game_over' = game_over
    /\ IF available(grown) = {}
       THEN /\ UNCHANGED <<food, speed_ms>>
            /\ after_queue' = q /\ job_id' = j
            /\ last' = "tick_error"
       ELSE /\ food' \in available(grown)
            /\ speed_ms' = new_speed(score + 1)
            /\ after_queue' = q + 1 /\ job_id' = "queued"
            /\ last' = "tick_eat"

\* tick, lines 121-126 and 130-131: the head is inserted and the food eaten.
\* When no cell is free random.choice([]) raises IndexError at line 125:
\* lines 121 and 124 have run, the rest of tick has not; Tk reports the
\* exception and the event loop goes on.
tick_eat(q, j, nh) ==
    LET grown == <<nh>> \o snake IN
    /\ snake' = grown
    /\ score' = score + 1
    /\ game_over' = game_over
    /\ IF available(grown) = {}
       THEN /\ UNCHANGED <<food, speed_ms>>
            /\ after_queue' = q /\ job_id' = j
            /\ last' = "tick_error"
       ELSE /\ food' \in available(grown)
            /\ speed_ms' = new_speed(score + 1)
            /\ after_queue' = q + 1 /\ job_id' = "queued"
            /\ last' = "tick_eat"

\* The moving branch with schedule_next_tick called twice.
tick_move_schedules_twice(q, j, nh) ==
    /\ snake' = pop(<<nh>> \o snake)
    /\ UNCHANGED <<food, score, speed_ms, game_over>>
    /\ after_queue' = q + 2 /\ job_id' = "queued"
    /\ last' = "tick_move"

\* tick, lines 121 and 127-131: the head is inserted and the tail removed.
tick_move(q, j, nh) ==
    /\ snake' = pop(<<nh>> \o snake)
    /\ UNCHANGED <<food, score, speed_ms, game_over>>
    /\ after_queue' = q + 1 /\ job_id' = "queued"
    /\ last' = "tick_move"

\* tick (lines 106-131).  q, j: scheduler state when the body starts.
tick(q, j) ==
    IF game_over
    THEN tick_game_over(q, j)
    ELSE
      LET nh == new_head(next_direction) IN
      /\ direction' = next_direction
      /\ next_direction' = next_direction
      /\ IF hits_wall(nh) \/ hits_self(nh)
         THEN tick_collision(q, j)
         ELSE IF eats(nh)
              THEN tick_eat(q, j, nh)
              ELSE tick_move(q, j, nh)

\* The event loop runs a queued tick callback: the one job_id names, or an
\* older one whose id has been overwritten.
TimerFires ==
    /\ UNCHANGED config
    /\ request' = "None"
    /\ after_queue > 0
    /\ \/ job_id = "queued" /\ tick(after_queue - 1, "fired")
       \/ after_queue > (IF job_id = "queued" THEN 1 ELSE 0)
          /\ tick(after_queue - 1, job_id)

\* tick() entered while the run is over (no callback is queued then).
TickWhileOver ==
    /\ UNCHANGED config
    /\ request' = "None"
    /\ game_over
    /\ tick(after_queue, job_id)

\* A key bound to change_direction is pressed (lines 25-32).
KeyPress ==
    \E d \in Directions :
        /\ UNCHANGED config
        /\ request' = d
        /\ change_direction(d)

\* <space> is pressed (line 33).
SpacePress ==
    /\ UNCHANGED config
    /\ request' = "None"
    /\ restart_if_game_over

Next == TimerFires \/ TickWhileOver \/ KeyPress \/ SpacePress

Spec == Init /\ [][Next]_vars

-----------------------------------------------------------------------------
(* A run without change_direction events, on boards of several sizes, in   *)
(* which a queued tick callback is eventually run by the event loop.       *)

\* Boards from the checked size upwards, all with at least two rows.
StraightBoards ==
    {Settings(c, r, SpeedSteps) :
        c \in BoardCols..(BoardCols + 2), r \in BoardRows..(BoardRows + 1)}

\* The state after construction with the settings cfg.
InitStraight ==
    /\ config \in StraightBoards
    /\ request = "None"
    /\ snake = start_snake
    /\ direction = "Right"
    /\ next_direction = "Right"
    /\ food \in available(start_snake)
    /\ score = 0
    /\ game_over = FALSE
    /\ speed_ms = base_speed_ms
    /\ job_id = "queued"
    /\ after_queue = 1
    /\ last = "init"

NextStraight == TimerFires \/ TickWhileOver \/ SpacePress

SpecStraight ==
    InitStraight /\ [][NextStraight]_vars /\ WF_vars(TimerFires)

-----------------------------------------------------------------------------
(* Construction with settings other than the ones the source fixes: the    *)
(* values of lines 10-14 are drawn from a set, __init__ is an action.      *)
(* Before __init__ has run the attributes do not exist; the variables      *)
(* hold placeholders then.                                                 *)

\* Boards of 0..BoardCols by 0..BoardRows cells, with min_speed_ms below
\* and above base_speed_ms.
ConfigChoices ==
    {[width |-> c * 30, height |-> r * 30, cell_size |-> 30,
      base_speed_ms |-> b, min_speed_ms |-> m] :
        c \in 0..BoardCols, r \in 0..BoardRows,
        b \in {100, 100 + 2 * SpeedSteps},
        m \in {100, 100 + 2 * SpeedSteps}}

InitConfig ==
    /\ config \in ConfigChoices
    /\ request = "None"
    /\ snake = <<>>
    /\ direction = "None"
    /\ next_direction = "None"
    /\ food = <<>>
    /\ score = 0
    /\ game_over = FALSE
    /\ speed_ms = 0
    /\ job_id = "None"
    /\ after_queue = 0
    /\ last = "new"

\* __init__ (lines 6-49): job_id = None, then reset_game.  With no free
\* cell random.choice([]) raises IndexError at line 65, after lines 58-64;
\* the exception leaves __init__ and main, and no event is ever handled.
Construct ==
    /\ last = "new"
    /\ UNCHANGED config
    /\ request' = "None"
    /\ IF available(start_snake) = {}
       THEN /\ snake' = start_snake
            /\ direction' = "Right"
            /\ next_direction' = "Right"
            /\ UNCHANGED <<food, score, game_over, speed_ms, job_id,
                           after_queue>>
            /\ last' = "init_error"
       ELSE reset_game(0, "None") /\ last' = "init"

\* __init__ has returned: the event loop is running.
Constructed == last \notin {"new", "init_error"}

NextConfig ==
    \/ Construct
    \/ Constructed /\ TimerFires
    \/ Constructed /\ TickWhileOver
    \/ Constructed /\ KeyPress
    \/ Constructed /\ SpacePress

SpecConfig == InitConfig /\ [][NextConfig]_vars

-----------------------------------------------------------------------------
(* Vocabulary of the properties, independent of the operations above. *)

\* A position on the board.
OnBoard(p) == p[1] >= 0 /\ p[1] < cols /\ p[2] >= 0 /\ p[2] < rows

\* No cell occurs twice in s.
NoDuplicates(s) == \A i, k \in 1..Len(s) : i # k => s[i] # s[k]

\* The values of last that a call of tick, of restart_if_game_over and of
\* change_direction leaves.
TickRan == {"tick_ignored", "tick_collision", "tick_eat", "tick_move",
            "tick_error"}
RestartRan == {"restart", "restart_ignored"}
DirectionRan == {"dir_ignored_over", "dir_ignored_opposite", "dir_set"}

\* The cell a tick computes as new head, in the state after the tick:
\* the head before the tick plus the vector of the direction it committed.
Target == <<snake[1][1] + direction_vectors[direction'][1],
            snake[1][2] + direction_vectors[direction'][2]>>

-----------------------------------------------------------------------------
\* C1: in every reachable state with game_over false, every snake segment
\* lies on the board and no two segments occupy the same cell.
C1_SnakeOnBoardDistinct ==
    ~game_over =>
        /\ \A i \in 1..Len(snake) : OnBoard(snake[i])
        /\ NoDuplicates(snake)

\* C1 witness: a running game whose snake has grown and whose head a tick
\* has just moved into the last column.
C1_Witness ==
    /\ ~game_over
    /\ last = "tick_move"
    /\ Len(snake) > 3
    /\ snake[1][1] = cols - 1

\* C2 as claimed: in every reachable state the food cell is on the board and
\* is not occupied by a snake segment.
C2_FoodOffSnake ==
    OnBoard(food) /\ food \notin Cells(snake)

\* C3: the direction a tick commits is never the opposite of the direction
\* committed before it, and the cell the tick computes as new head is never
\* the segment directly behind the head.
C3_NoReversal ==
    [][(~game_over /\ last' \in TickRan) =>
          /\ direction' # opposites[direction]
          /\ Target # snake[2]]_vars

\* C3 witness: after an accepted turn is pending, a request for the opposite
\* of the committed direction has been rejected.
C3_Witness ==
    /\ ~game_over
    /\ last = "dir_ignored_opposite"
    /\ next_direction # direction

\* C4: the game starts Running; game_over turns true only in a tick whose
\* new head is off the board or on the snake, turns false only in
\* restart_if_game_over, and is never changed by change_direction.
C4_PhaseTransitions ==
    /\ [](last = "init" => ~game_over)
    /\ [][/\ (~game_over /\ game_over') =>
                /\ last' = "tick_collision"
                /\ (~OnBoard(Target) \/ Target \in Cells(snake))
          /\ (game_over /\ ~game_over') => last' = "restart"
          /\ last' \in DirectionRan => game_over' = game_over]_vars

\* C4 witness: a run that ended by a collision and was restarted.
C4_Witness ==
    /\ last = "restart"
    /\ ~game_over

\* C5: a tick entered while game_over is true changes none of snake,
\* direction, next_direction, food, score, speed_ms, game_over, and
\* schedules nothing.
C5_TickWhenOverIsNoOp ==
    [][(game_over /\ last' \in TickRan) =>
          UNCHANGED <<game, after_queue, job_id>>]_vars

\* C5 witness: tick has returned early in the Over phase of a run that
\* scored.
C5_Witness ==
    /\ game_over
    /\ last = "tick_ignored"
    /\ score > 0

\* C6: restart_if_game_over from a state with game_over true yields a
\* fresh game: score 0, game_over false, a horizontal 3-cell snake with
\* the head at (cols // 2, rows // 2), both directions Right, speed_ms =
\* base_speed_ms, food on a free cell of the board.
C6_RestartIsFreshStart ==
    [][(game_over /\ last' \in RestartRan) =>
          /\ score' = 0
          /\ game_over' = FALSE
          /\ snake' = << <<cols \div 2, rows \div 2>>,
                         <<(cols \div 2) - 1, rows \div 2>>,
                         <<(cols \div 2) - 2, rows \div 2>> >>
          /\ direction' = "Right"
          /\ next_direction' = "Right"
          /\ speed_ms' = base_speed_ms
          /\ OnBoard(food')
          /\ food' \notin Cells(snake')]_vars

\* C6 witness: a restart has just produced the fresh state.
C6_Witness ==
    /\ last = "restart"
    /\ score = 0
    /\ Len(snake) = 3
    /\ speed_ms = base_speed_ms

\* C7: restart_if_game_over while game_over is false changes nothing and
\* leaves the scheduled tick as it is.
C7_RestartWhenRunningIsNoOp ==
    [][(~game_over /\ last' \in RestartRan) =>
          UNCHANGED <<game, after_queue, job_id>>]_vars

\* C7 witness: a restart request was ignored in the middle of a run that
\* has scored, with its tick still scheduled.
C7_Witness ==
    /\ last = "restart_ignored"
    /\ ~game_over
    /\ score > 0
    /\ after_queue = 1

\* C8: a tick of a running game adds exactly 1 to score if its new head is
\* the food cell held before the tick and there is no collision, and leaves
\* score unchanged otherwise; score never decreases except by a restart.
C8_ScoreFollowsFood ==
    [][/\ (~game_over /\ last' \in TickRan) =>
             IF Target = food /\ OnBoard(Target) /\ Target \notin Cells(snake)
             THEN score' = score + 1
             ELSE score' = score
       /\ last' # "restart" => score' >= score]_vars

\* C8 witness: a tick has eaten food for the second time in a run.
C8_Witness ==
    /\ last = "tick_eat"
    /\ score = 2
    /\ snake[1] # food

\* C9: speed_ms = max(min_speed_ms, base_speed_ms - 2 * score) in every
\* reachable state, so it lies between min_speed_ms and base_speed_ms, and
\* it never increases except by a restart.
C9_SpeedFormula ==
    /\ [](/\ speed_ms = (IF base_speed_ms - 2 * score > min_speed_ms
                         THEN base_speed_ms - 2 * score
                         ELSE min_speed_ms)
          /\ min_speed_ms <= speed_ms
          /\ speed_ms <= base_speed_ms)
    /\ [][last' # "restart" => speed_ms' <= speed_ms]_vars

\* C9 witness: the floor is in force: the score is past the point where
\* base_speed_ms - 2 * score drops below min_speed_ms.
C9_Witness ==
    /\ last = "tick_eat"
    /\ base_speed_ms - 2 * score < min_speed_ms
    /\ speed_ms = min_speed_ms

\* C10 as claimed: when the snake has eaten and no cell is left for the new
\* food, the game is over (and so can be restarted).
C10_FullBoardEndsGame ==
    Cardinality(Cells(snake)) = cols * rows => game_over

-----------------------------------------------------------------------------
\* The cell the last tick computed as new head, seen from the state after a
\* tick that did not move the snake: the head plus the committed direction.
Blocked == <<snake[1][1] + direction_vectors[direction][1],
             snake[1][2] + direction_vectors[direction][2]>>

\* |a|
Abs(a) == IF a < 0 THEN -a ELSE a

C12_AtMostOneTickPending ==
    /\ [](after_queue <= 1 /\ (after_queue = 1 => job_id = "queued"))
    /\ [][last' \in TickRan => after_queue' <= after_queue]_vars

\* C12 witness: a restart has cancelled and scheduled, and one tick is
\* pending.
C12_Witness ==
    /\ last = "restart"
    /\ after_queue = 1
    /\ job_id = "queued"

\* C13: a tick whose new head is off the board sets game_over, leaves snake,
\* food, score and speed_ms as they were and schedules no tick.
C13_WallCollision ==
    [][(~game_over /\ last' \in TickRan /\ ~OnBoard(Target)) =>
          /\ game_over' = TRUE
          /\ UNCHANGED <<snake, food, score, speed_ms>>
          /\ after_queue' = after_queue - 1]_vars

\* C13 witness: a tick has just ended the run against a wall.
C13_Witness ==
    /\ game_over
    /\ last = "tick_collision"
    /\ ~OnBoard(Blocked)
    /\ after_queue = 0

\* C14: a tick whose new head is a cell of the snake as it is before the
\* move, the tail cell included, sets game_over and leaves snake and score
\* as they were.
C14_SelfCollisionBeforeMove ==
    [][(~game_over /\ last' \in TickRan /\ Target \in Cells(snake)) =>
          /\ game_over' = TRUE
          /\ snake' = snake
          /\ score' = score]_vars

\* C14 witness: a tick has just ended the run on the tail cell.
C14_Witness ==
    /\ game_over
    /\ last = "tick_collision"
    /\ Blocked = snake[Len(snake)]

\* C15: a tick with no collision whose new head is not the food cell moves
\* the snake by one cell: new head first, then the old snake without its
\* last segment; food, score, speed_ms and game_over are unchanged.
C15_PlainMove ==
    [][(/\ ~game_over
        /\ last' \in TickRan
        /\ OnBoard(Target)
        /\ Target \notin Cells(snake)
        /\ Target # food) =>
          /\ snake' = <<Target>> \o SubSeq(snake, 1, Len(snake) - 1)
          /\ Len(snake') = Len(snake)
          /\ UNCHANGED <<food, score, speed_ms, game_over>>]_vars

\* C15 witness: a tick has moved a grown snake around a corner.
C15_Witness ==
    /\ last = "tick_move"
    /\ Len(snake) > 3
    /\ snake[1][2] # snake[3][2]

\* C16: change_direction changes nothing but next_direction; it changes
\* nothing at all when game_over is true or the request is the opposite of
\* the committed direction, sets next_direction to the request otherwise;
\* and a tick commits the next_direction it finds.
C16_ChangeDirectionFrame ==
    [][/\ last' \in DirectionRan =>
             /\ UNCHANGED <<snake, direction, food, score, game_over,
                            speed_ms, job_id, after_queue>>
             /\ IF game_over \/ request' = opposites[direction]
                THEN next_direction' = next_direction
                ELSE next_direction' = request'
       /\ (~game_over /\ last' \in TickRan) =>
             direction' = next_direction]_vars

\* C16 witness: in a run that has ticked, a request was accepted and is
\* pending, different from the committed direction.
C16_Witness ==
    /\ last = "dir_set"
    /\ request = next_direction
    /\ next_direction # direction
    /\ snake[1] # start_snake[1]

\* C17: the snake has 3 + score segments in every reachable state.
C17_LengthIsThreePlusScore ==
    Len(snake) = 3 + score

\* C17 witness: the snake has grown twice.
C17_Witness ==
    /\ last = "tick_eat"
    /\ score = 2
    /\ Len(snake) = 5

\* C18 as claimed: exactly one tick is pending whenever game_over is false
\* and none whenever game_over is true.
C18_TickPendingIffRunning ==
    IF game_over THEN after_queue = 0 ELSE after_queue = 1

\* C19: consecutive segments of the snake are one step apart along exactly
\* one axis.
C19_SnakeConnected ==
    \A i \in 1..(Len(snake) - 1) :
        Abs(snake[i][1] - snake[i + 1][1])
            + Abs(snake[i][2] - snake[i + 1][2]) = 1

\* C19 witness: a grown snake with a bend, just moved by a tick.
C19_Witness ==
    /\ last = "tick_move"
    /\ Len(snake) > 3
    /\ snake[1][1] # snake[Len(snake)][1]
    /\ snake[1][2] # snake[Len(snake)][2]

\* C20: without change_direction events and with queued ticks eventually
\* run, a running game reaches game_over: the snake keeps heading Right,
\* every tick moves the head one cell to the right or ends the run, and the
\* head, which starts in column cols // 2, never passes column cols - 1, so
\* the run ends with tick number cols - cols // 2 at the latest.
C20_StraightRunEnds ==
    /\ ~game_over ~> game_over
    /\ [](direction = "Right" /\ next_direction = "Right")
    /\ [](snake[1][1] >= cols \div 2 /\ snake[1][1] <= cols - 1)
    /\ [][(~game_over /\ last' \in TickRan) =>
             \/ game_over' /\ snake[1][1] = cols - 1
             \/ ~game_over' /\ snake'[1][1] = snake[1][1] + 1]_vars

\* C20 witness: a run without key presses has ended at the right wall
\* after eating on its way.
C20_Witness ==
    /\ game_over
    /\ last = "tick_collision"
    /\ request = "None"
    /\ snake[1][1] = cols - 1
    /\ score = 1

====
